---- MODULE Spec2Model ----
(***************************************************************************)
(* Boston housing API: the homes table (SQLite), the FastAPI routes of     *)
(* main.py that read and write it, and the one-shot CSV loader of          *)
(* load_data.py.                                                           *)
(*                                                                         *)
(* Numbers are Python/SQLite floats.  A float is modelled as a binary      *)
(* floating-point number [m |-> mantissa, e |-> exponent] of value m * 2^e *)
(* with a mantissa of Precision bits, rounded to nearest, ties to even, as *)
(* IEEE 754 does with 53 bits.  Only non-negative numbers are needed.      *)
(***************************************************************************)
EXTENDS Integers, Sequences, FiniteSets, TLC

\* Mantissa width of the modelled floats (binary64 has 53).
Precision == 8
\* Largest number of rows the table may hold in the model.
MaxHomes == 3
\* Number of requests the server may have in flight at once.
MaxConcurrent == 2

\* main.py:107 and main.py:121: dollars per unit of medv.
Thousand == 1000
\* main.py:109 and main.py:122: dirhams per dollar.
DirhamRate == 10
\* main.py:96: default limit of the list route.
ListLimitDefault == 100
\* main.py:114: default limit of the recommendation route.
RecLimitDefault == 20

----------------------------------------------------------------------------
(* Floating point *)

RECURSIVE Pow2(_)
Pow2(k) == IF k <= 0 THEN 1 ELSE 2 * Pow2(k - 1)

Zero == [m |-> 0, e |-> 0]
\* A missing CSV cell: pandas reads it as NaN, which SQLite stores as NULL.
NaN == [m |-> -1, e |-> 0]
IsNaN(x) == x.m < 0

\* n/d scaled by a power of two so that the quotient has exactly
\* Precision bits: <<n', d', e>> with n/d = (n'/d') * 2^e.
RECURSIVE Normalize(_, _, _)
Normalize(n, d, e) ==
    IF n >= d * Pow2(Precision) THEN Normalize(n, 2 * d, e + 1)
    ELSE IF n < d * Pow2(Precision - 1) THEN Normalize(2 * n, d, e - 1)
    ELSE <<n, d, e>>

\* The float nearest to the rational n/d (n >= 0, d > 0), ties to even.
RoundRat(n, d) ==
    IF n = 0 THEN Zero
    ELSE LET t == Normalize(n, d, 0)
             q == t[1] \div t[2]
             r == t[1] % t[2]
             up == 2 * r > t[2] \/ (2 * r = t[2] /\ q % 2 = 1)
             q1 == IF up THEN q + 1 ELSE q
         IN  IF q1 = Pow2(Precision)
             THEN [m |-> Pow2(Precision - 1), e |-> t[3] + 1]
             ELSE [m |-> q1, e |-> t[3]]

\* x * 2^k.
Shift(x, k) == IF x.m = 0 THEN Zero ELSE [m |-> x.m, e |-> x.e + k]

\* A decimal literal n/d read as a float (JSON body, query string, CSV cell).
Fl(n, d) == RoundRat(n, d)

\* x * c and x / c for an integer constant c, correctly rounded.
FMul(x, c) == Shift(RoundRat(x.m * c, 1), x.e)
FDiv(x, c) == Shift(RoundRat(x.m, c), x.e)

MinInt(a, b) == IF a <= b THEN a ELSE b
MaxInt(a, b) == IF a >= b THEN a ELSE b

\* The mantissa of x at exponent e0 <= x.e.
Aligned(x, e0) == x.m * Pow2(x.e - e0)

FLeq(x, y) ==
    LET e0 == MinInt(x.e, y.e) IN Aligned(x, e0) <= Aligned(y, e0)
FLess(x, y) == ~FLeq(y, x)

\* abs(x - y), correctly rounded.
AbsDiff(x, y) ==
    LET e0 == MinInt(x.e, y.e)
        a == Aligned(x, e0)
        b == Aligned(y, e0)
    IN  Shift(RoundRat(IF a >= b THEN a - b ELSE b - a, 1), e0)

\* n/d rounded to the nearest integer, ties to even.
RoundHalfEven(n, d) ==
    LET q == n \div d
        r == n % d
    IN  IF 2 * r > d \/ (2 * r = d /\ q % 2 = 1) THEN q + 1 ELSE q

\* Python's round(x, 1).
Round1(x) ==
    IF x.e >= 0 THEN x
    ELSE Fl(RoundHalfEven(x.m * 10, Pow2(0 - x.e)), 10)

----------------------------------------------------------------------------
(* The homes table and the values used to exercise it *)

\* The request body of POST /homes/ (HomeCreate): 7 features and medv.
Payload(rm, lstat, dis, tax, ptratio, age, indus, medv) ==
    [rm |-> rm, lstat |-> lstat, dis |-> dis, tax |-> tax,
     ptratio |-> ptratio, age |-> age, indus |-> indus, medv |-> medv]

PayloadA == Payload(Fl(6, 1), Fl(5, 1), Fl(4, 1), Fl(300, 1), Fl(15, 1),
                    Fl(60, 1), Fl(7, 1), Fl(24, 1))
PayloadB == Payload(Fl(65, 10), Fl(9, 1), Fl(3, 1), Fl(280, 1), Fl(18, 1),
                    Fl(45, 1), Fl(11, 1), Fl(24125, 1000))
Payloads == {PayloadA, PayloadB}

RowC == Payload(Fl(7, 1), Fl(4, 1), Fl(5, 1), Fl(240, 1), Fl(17, 1),
                Fl(52, 1), Fl(2, 1), Fl(215, 10))
RowD == Payload(Fl(59, 10), Fl(12, 1), Fl(6, 1), Fl(310, 1), Fl(21, 1),
                Fl(80, 1), Fl(8, 1), Fl(22, 1))
\* A CSV row whose medv cell is empty.
RowBad == Payload(Fl(6, 1), Fl(5, 1), Fl(4, 1), Fl(300, 1), Fl(15, 1),
                  Fl(60, 1), Fl(7, 1), NaN)
\* The contents of the CSV file, one of these per loader run.
Batches == {<<RowC, RowD>>, <<RowC, RowBad>>}

\* The bodies posted when the routes are called one after the other.
QueryPayloads == {PayloadA, PayloadB, RowC}

Fields == {"rm", "lstat", "dis", "tax", "ptratio", "age", "indus", "medv"}

\* The dirham price of a median value: predict's conversion without its
\* rounding to one decimal.
PriceOf(medv) == FMul(FMul(medv, Thousand), DirhamRate)

Prices == {PriceOf(PayloadA.medv), PriceOf(RowC.medv), Fl(228000, 1)}
Skips == {0, 1, 2}
ListLimits == {0, 1, 2, ListLimitDefault}
RecLimits == {-1, 0, 1, 2, RecLimitDefault}
\* What the regression pipeline may answer, in $1000s.
Predictions == {Fl(242, 10), Fl(1234, 100000)}

Reqs == 1..MaxConcurrent

VARIABLES
    homes,      \* the committed rows of table homes, in insertion order
    writeLock,  \* TRUE while the loader's transaction holds SQLite's write lock
    pc,         \* pc[r]: "idle", "handler" (route body to run), "exit"
    session,    \* session[r]: the session get_db gave request r, 0 if none
    open,       \* the sessions that are open
    raised,     \* raised[r]: the route body of r ended in an exception
    sent,       \* sent[r]: the response of r has been delivered
    last,       \* what the route body that ran in the last step did
    loaderPc,   \* "idle", "flush", "failed", "close"
    batch,      \* the rows the running loader added to its session
    txn,        \* the rows the loader's open transaction has inserted
    loaderOut   \* what the loader printed: "", "inserted", "error"

vars == <<homes, writeLock, pc, session, open, raised, sent, last,
          loaderPc, batch, txn, loaderOut>>

reqVars == <<pc, session, open, raised, sent>>
loaderVars == <<loaderPc, batch, txn, loaderOut>>

Ids(rows) == {rows[i].id : i \in 1..Len(rows)}

RECURSIVE MaxOf(_)
MaxOf(S) == IF S = {} THEN 0
            ELSE LET x == CHOOSE y \in S : TRUE
                 IN  MaxInt(x, MaxOf(S \ {x}))

\* The rowid SQLite gives a row inserted into an INTEGER PRIMARY KEY table:
\* one more than the largest rowid the inserting transaction sees.
\* Variant: the row count of the committed table plus one.
NextIdIgnoresTxn(committed, pending) == Len(committed) + 1
NextId(committed, pending) == MaxOf(Ids(committed) \cup Ids(pending)) + 1

\* Home(**home.dict()) once flushed: the payload's columns and its id.
\* Variant: medv is not taken from the payload.
NewHomeDropsMedv(home, id) ==
    [id |-> id, rm |-> home.rm, lstat |-> home.lstat, dis |-> home.dis,
     tax |-> home.tax, ptratio |-> home.ptratio, age |-> home.age,
     indus |-> home.indus, medv |-> Zero]
NewHome(home, id) ==
    [id |-> id, rm |-> home.rm, lstat |-> home.lstat, dis |-> home.dis,
     tax |-> home.tax, ptratio |-> home.ptratio, age |-> home.age,
     indus |-> home.indus, medv |-> home.medv]

\* nullable=False on every column.
Insertable(home) == \A f \in Fields : ~IsNaN(home[f])

\* A full scan of the table: rows in rowid order.
RECURSIVE RowidScan(_)
RowidScan(rows) ==
    IF rows = <<>> THEN <<>>
    ELSE LET i == CHOOSE j \in 1..Len(rows) :
                      \A k \in 1..Len(rows) : rows[j].id <= rows[k].id
             rest == [k \in 1..(Len(rows) - 1) |->
                          IF k < i THEN rows[k] ELSE rows[k + 1]]
         IN  <<rows[i]>> \o RowidScan(rest)

\* SQL OFFSET n: a negative n skips nothing.
\* Variant: skips one row too many.
OffsetOffByOne(rows, n) == SubSeq(rows, MaxInt(n, 0) + 2, Len(rows))
Offset(rows, n) == SubSeq(rows, MaxInt(n, 0) + 1, Len(rows))

\* SQL LIMIT n: a negative n is no limit.
Limit(rows, n) == IF n < 0 THEN rows ELSE SubSeq(rows, 1, MinInt(n, Len(rows)))

\* db.query(Home).offset(skip).limit(limit).all()
ListQuery(rows, skip, limit) == Limit(Offset(RowidScan(rows), skip), limit)

\* target = price / 1000; target = target / 10
\* Variant: the division by the rate is left out.
ConvertPriceForgetsRate(price) == FDiv(price, Thousand)
ConvertPrice(price) == FDiv(FDiv(price, Thousand), DirhamRate)

Perms(n) == {f \in [1..n -> 1..n] : \A i, j \in 1..n : i # j => f[i] # f[j]}

\* ORDER BY abs(medv - target): every order of the rows in which the key
\* never decreases (SQL leaves the order of equal keys open).
\* Variant: the key never increases.
OrderedByDescending(rows, target) ==
    {[i \in 1..Len(rows) |-> rows[f[i]]] : f \in
        {g \in Perms(Len(rows)) : \A i \in 1..(Len(rows) - 1) :
            FLeq(AbsDiff(rows[g[i + 1]].medv, target),
                 AbsDiff(rows[g[i]].medv, target))}}
OrderedBy(rows, target) ==
    {[i \in 1..Len(rows) |-> rows[f[i]]] : f \in
        {g \in Perms(Len(rows)) : \A i \in 1..(Len(rows) - 1) :
            FLeq(AbsDiff(rows[g[i]].medv, target),
                 AbsDiff(rows[g[i + 1]].medv, target))}}

\* if not homes: raise HTTPException(status_code=404, ...)
\* Variant: no 404.
RecStatusAlwaysOk(found) == 200
RecStatus(found) == IF found = <<>> THEN 404 ELSE 200

\* round(float(pred * 1000), 1) * 10
DirhamPrice(pred) == FMul(Round1(FMul(pred, Thousand)), DirhamRate)

NoEvent == [op |-> "none", req |-> 0, status |-> 0, out |-> <<>>,
            home |-> PayloadA, price |-> Zero, skip |-> 0, limit |-> 0,
            pre |-> <<>>, dirham |-> Zero]

----------------------------------------------------------------------------
(* The server: get_db, the routes, and the delivery of the response *)

Init ==
    /\ homes = <<>>
    /\ writeLock = FALSE
    /\ pc = [r \in Reqs |-> "idle"]
    /\ session = [r \in Reqs |-> 0]
    /\ open = {}
    /\ raised = [r \in Reqs |-> FALSE]
    /\ sent = [r \in Reqs |-> FALSE]
    /\ last = NoEvent
    /\ loaderPc = "idle"
    /\ batch = <<>>
    /\ txn = <<>>
    /\ loaderOut = ""

\* SessionLocal(): a session object no open session is.
NewSession == CHOOSE s \in 1..(Cardinality(open) + 1) :
                  s \notin open /\ \A t \in 1..(s - 1) : t \in open

\* db = SessionLocal(); yield db
GetDb(r) ==
    /\ pc[r] = "idle"
    /\ pc' = [pc EXCEPT ![r] = "handler"]
    /\ session' = [session EXCEPT ![r] = NewSession]
    /\ open' = open \cup {NewSession}
    /\ last' = NoEvent
    /\ UNCHANGED <<homes, writeLock, raised, sent, loaderVars>>

\* The route body of r has returned (status 200) or raised.
Leave(r, status) ==
    /\ pc' = [pc EXCEPT ![r] = "exit"]
    /\ raised' = [raised EXCEPT ![r] = (status # 200)]
    /\ UNCHANGED <<session, open, sent>>

\* db.refresh(db_home): the committed row read back by its id.
Refresh(rows, id) == rows[CHOOSE i \in 1..Len(rows) : rows[i].id = id]

\* POST /homes/: add, commit, refresh.
CreateHome(r, home) ==
    /\ pc[r] = "handler"
    /\ ~writeLock
    /\ Len(homes) < MaxHomes
    /\ LET id == NextId(homes, <<>>)
           stored == Append(homes, NewHome(home, id))
       IN  /\ homes' = stored
           /\ last' = [NoEvent EXCEPT !.op = "create", !.req = r,
                          !.status = 200, !.home = home, !.pre = homes,
                          !.out = <<Refresh(stored, id)>>]
    /\ Leave(r, 200)
    /\ UNCHANGED <<writeLock, loaderVars>>

\* POST /homes/ while the loader's transaction holds the write lock: the
\* INSERT ends in "database is locked" and commit raises.
CreateHomeLocked(r, home) ==
    /\ pc[r] = "handler"
    /\ writeLock
    /\ last' = [NoEvent EXCEPT !.op = "create", !.req = r, !.status = 500,
                   !.home = home, !.pre = homes]
    /\ Leave(r, 500)
    /\ UNCHANGED <<homes, writeLock, loaderVars>>

\* GET /homes/
ListHomes(r, skip, limit) ==
    /\ pc[r] = "handler"
    /\ last' = [NoEvent EXCEPT !.op = "list", !.req = r, !.status = 200,
                   !.skip = skip, !.limit = limit, !.pre = homes,
                   !.out = ListQuery(homes, skip, limit)]
    /\ Leave(r, 200)
    /\ UNCHANGED <<homes, writeLock, loaderVars>>

\* POST /predict/: no session, no storage.
PredictPrice(r, pred) ==
    /\ pc[r] = "idle"
    /\ last' = [NoEvent EXCEPT !.op = "predict", !.req = r, !.status = 200,
                   !.pre = homes, !.dirham = DirhamPrice(pred)]
    /\ Leave(r, 200)
    /\ UNCHANGED <<homes, writeLock, loaderVars>>

\* GET /recommendation/
Recommendation(r, price, limit) ==
    /\ pc[r] = "handler"
    /\ \E ordered \in OrderedBy(homes, ConvertPrice(price)) :
          LET found == Limit(ordered, limit)
          IN  /\ last' = [NoEvent EXCEPT !.op = "recommendation", !.req = r,
                             !.status = RecStatus(found), !.price = price,
                             !.limit = limit, !.pre = homes, !.out = found]
              /\ Leave(r, RecStatus(found))
    /\ UNCHANGED <<homes, writeLock, loaderVars>>

\* Request r is over: its slot is free for the next request.
Done(r) ==
    /\ pc' = [pc EXCEPT ![r] = "idle"]
    /\ raised' = [raised EXCEPT ![r] = FALSE]
    /\ sent' = [sent EXCEPT ![r] = FALSE]

\* finally: db.close(), when the route body has returned or raised.
\* Variant: db.close() after the yield without try/finally.
CloseDbSkipsOnError(r) ==
    /\ pc[r] = "exit"
    /\ session[r] # 0
    /\ session' = [session EXCEPT ![r] = 0]
    /\ open' = IF raised[r] THEN open ELSE open \ {session[r]}
    /\ IF sent[r] THEN Done(r) ELSE UNCHANGED <<pc, raised, sent>>
    /\ last' = NoEvent
    /\ UNCHANGED <<homes, writeLock, loaderVars>>
CloseDb(r) ==
    /\ pc[r] = "exit"
    /\ session[r] # 0
    /\ session' = [session EXCEPT ![r] = 0]
    /\ open' = open \ {session[r]}
    /\ IF sent[r] THEN Done(r) ELSE UNCHANGED <<pc, raised, sent>>
    /\ last' = NoEvent
    /\ UNCHANGED <<homes, writeLock, loaderVars>>

\* The framework delivers the response built from what the route body
\* returned or raised.  The code does not order this with get_db's finally.
SendResponse(r) ==
    /\ pc[r] = "exit"
    /\ ~sent[r]
    /\ IF session[r] = 0
       THEN Done(r)
       ELSE sent' = [sent EXCEPT ![r] = TRUE] /\ UNCHANGED <<pc, raised>>
    /\ last' = NoEvent
    /\ UNCHANGED <<homes, writeLock, session, open, loaderVars>>

----------------------------------------------------------------------------
(* The loader *)

\* read_csv, SessionLocal(), one session.add per row.
LoaderStart(rows) ==
    /\ loaderPc = "idle"
    /\ Len(homes) + Len(rows) <= MaxHomes
    /\ loaderPc' = "flush"
    /\ batch' = rows
    /\ txn' = <<>>
    /\ loaderOut' = ""
    /\ last' = NoEvent
    /\ UNCHANGED <<homes, writeLock, reqVars>>

\* session.commit() flushing the next pending row: its INSERT, inside the
\* loader's transaction.  A row with a NULL column fails the INSERT.
LoaderInsertRow ==
    /\ loaderPc = "flush"
    /\ Len(txn) < Len(batch)
    /\ Len(homes) + Len(batch) <= MaxHomes
    /\ LET row == batch[Len(txn) + 1]
       IN  IF Insertable(row)
           THEN /\ txn' = Append(txn, NewHome(row, NextId(homes, txn)))
                /\ loaderPc' = "flush"
           ELSE /\ txn' = txn
                /\ loaderPc' = "failed"
    /\ writeLock' = TRUE
    /\ last' = NoEvent
    /\ UNCHANGED <<homes, batch, loaderOut, reqVars>>

\* session.commit() once every row is flushed: COMMIT, then the print.
\* Variant: the table is replaced by the batch.
LoaderCommitTruncates ==
    /\ loaderPc = "flush"
    /\ Len(txn) = Len(batch)
    /\ homes' = txn
    /\ txn' = <<>>
    /\ writeLock' = FALSE
    /\ loaderOut' = "inserted"
    /\ loaderPc' = "close"
    /\ last' = NoEvent
    /\ UNCHANGED <<batch, reqVars>>
LoaderCommit ==
    /\ loaderPc = "flush"
    /\ Len(txn) = Len(batch)
    /\ homes' = homes \o txn
    /\ txn' = <<>>
    /\ writeLock' = FALSE
    /\ loaderOut' = "inserted"
    /\ loaderPc' = "close"
    /\ last' = NoEvent
    /\ UNCHANGED <<batch, reqVars>>

\* except Exception: session.rollback(), then the print.
\* Variant: the rows inserted before the failure are kept.
LoaderRollbackKeepsRows ==
    /\ loaderPc = "failed"
    /\ homes' = homes \o txn
    /\ txn' = <<>>
    /\ writeLock' = FALSE
    /\ loaderOut' = "error"
    /\ loaderPc' = "close"
    /\ last' = NoEvent
    /\ UNCHANGED <<batch, reqVars>>
LoaderRollback ==
    /\ loaderPc = "failed"
    /\ txn' = <<>>
    /\ writeLock' = FALSE
    /\ loaderOut' = "error"
    /\ loaderPc' = "close"
    /\ last' = NoEvent
    /\ UNCHANGED <<homes, batch, reqVars>>

\* finally: session.close(); the script ends and may be run again.
LoaderClose ==
    /\ loaderPc = "close"
    /\ loaderPc' = "idle"
    /\ batch' = <<>>
    /\ loaderOut' = ""
    /\ last' = NoEvent
    /\ UNCHANGED <<homes, writeLock, txn, reqVars>>

\* The loader running beside the server, which serves one client.  The two
\* read routes are called with their default paging here; QuerySpec below
\* calls them with every argument.
Next ==
    \/ GetDb(1)
    \/ \E home \in Payloads : CreateHome(1, home)
    \/ \E home \in Payloads : CreateHomeLocked(1, home)
    \/ ListHomes(1, 0, ListLimitDefault)
    \/ \E pred \in Predictions : PredictPrice(1, pred)
    \/ Recommendation(1, PriceOf(PayloadA.medv), RecLimitDefault)
    \/ CloseDb(1)
    \/ SendResponse(1)
    \/ \E rows \in Batches : LoaderStart(rows)
    \/ LoaderInsertRow
    \/ LoaderCommit
    \/ LoaderRollback
    \/ LoaderClose

Spec == Init /\ [][Next]_vars

\* The server with up to MaxConcurrent requests in flight, each at its own
\* point between get_db, the route body, db.close() and the response.
ConcurrentNext ==
    \/ \E r \in Reqs : GetDb(r)
    \/ \E r \in Reqs : CreateHome(r, PayloadA)
    \/ \E r \in Reqs : ListHomes(r, 0, ListLimitDefault)
    \/ \E r \in Reqs : PredictPrice(r, Fl(242, 10))
    \/ \E r \in Reqs : Recommendation(r, PriceOf(PayloadA.medv), RecLimitDefault)
    \/ \E r \in Reqs : CloseDb(r)
    \/ \E r \in Reqs : SendResponse(r)

ConcurrentSpec == Init /\ [][ConcurrentNext]_vars

\* One client calling the routes one after the other, the read routes with
\* every argument of the sets above: what a query answers depends on the
\* table and the arguments alone.
QueryNext ==
    \/ GetDb(1)
    \/ \E home \in QueryPayloads : CreateHome(1, home)
    \/ \E skip \in Skips, limit \in ListLimits : ListHomes(1, skip, limit)
    \/ \E price \in Prices, limit \in RecLimits : Recommendation(1, price, limit)
    \/ CloseDb(1)
    \/ SendResponse(1)

QuerySpec == Init /\ [][QueryNext]_vars

----------------------------------------------------------------------------
(* Properties *)

Range(seq) == {seq[i] : i \in 1..Len(seq)}
IsPrefix(a, b) == Len(a) <= Len(b) /\ \A i \in 1..Len(a) : a[i] = b[i]
DbOps == {"create", "list", "recommendation"}
ReadOps == {"list", "predict", "recommendation"}
CreatedRows == {h \in Range(homes) : \E p \in Payloads : p.rm = h.rm}
LoadedRows == {h \in Range(homes) : h.rm = RowC.rm \/ h.rm = RowD.rm}

\* C1: a successful recommendation answers rows of the table in ascending
\* order of abs(medv - price/1000/10), and no row it answers is farther
\* from the target than a row of the table it leaves out.
C1_RecommendationOrdered ==
    (last.op = "recommendation" /\ last.status = 200) =>
        LET target == ConvertPrice(last.price)
            dist(h) == AbsDiff(h.medv, target)
        IN  /\ Range(last.out) \subseteq Range(homes)
            /\ \A i \in 1..(Len(last.out) - 1) :
                  FLeq(dist(last.out[i]), dist(last.out[i + 1]))
            /\ \A h \in Range(last.out), x \in Range(homes) \ Range(last.out) :
                  FLeq(dist(h), dist(x))

\* Two rows answered at strictly growing distances, a third, farther one
\* left out.
C1_Witness ==
    /\ last.op = "recommendation" /\ last.status = 200
    /\ Len(homes) = 3 /\ Len(last.out) = 2
    /\ LET target == ConvertPrice(last.price)
       IN  /\ FLess(AbsDiff(last.out[1].medv, target),
                    AbsDiff(last.out[2].medv, target))
           /\ \E x \in Range(homes) \ Range(last.out) :
                 FLess(AbsDiff(last.out[2].medv, target),
                       AbsDiff(x.medv, target))

\* C2: a recommendation asked of an empty table ends in the 404 error,
\* whatever the price and the limit, and never in a success.
C2_EmptyStorageNotFound ==
    (last.op = "recommendation" /\ homes = <<>>) =>
        /\ last.status = 404
        /\ raised[last.req]
        /\ last.out = <<>>

C2_Witness ==
    /\ last.op = "recommendation" /\ homes = <<>>
    /\ last.limit = RecLimitDefault
    /\ last.status = 404

\* C3: right after a successful create some list request answers a row
\* with the id create returned and the 8 submitted values, and no row
\* stored before the create had that id.
C3_CreateRoundTrip ==
    (last.op = "create" /\ last.status = 200) =>
        /\ Len(last.out) = 1
        /\ last.out[1].id \notin Ids(last.pre)
        /\ \E skip \in Skips, limit \in ListLimits :
              \E h \in Range(ListQuery(homes, skip, limit)) :
                  /\ h.id = last.out[1].id
                  /\ \A f \in Fields : h[f] = last.home[f]

\* A create into a table that already holds loaded and created rows.
C3_Witness ==
    /\ last.op = "create" /\ last.status = 200
    /\ last.home = PayloadB
    /\ Len(last.pre) = 2
    /\ last.out[1].id = 3
    /\ last.out[1].medv = PayloadB.medv

UniqueIds ==
    \A i, j \in 1..Len(homes) : i # j => homes[i].id # homes[j].id

\* C4: no two stored rows share an id, and a row that enters the table
\* never gets the id of a row stored before it.
C4_IdsUniqueNeverReused ==
    /\ []UniqueIds
    /\ [][\A h \in Range(homes') \ Range(homes) : h.id \notin Ids(homes)]_vars

\* Created and loaded rows side by side.
C4_Witness ==
    /\ Len(homes) = 3
    /\ CreatedRows # {}
    /\ LoadedRows # {}
    /\ homes[1] \in CreatedRows

\* The loader commits: from "flush" to "close".
LoaderCommits == loaderPc = "flush" /\ loaderPc' = "close"

\* C5: a loader run changes the table only by its commit, which appends one
\* row per input row with the input's values and reports success; a run
\* whose insert fails leaves the table as it is and reports an error.
C5_LoaderAllOrNothing ==
    /\ [][loaderVars' # loaderVars =>
            IF LoaderCommits
            THEN /\ Len(homes') = Len(homes) + Len(batch)
                 /\ IsPrefix(homes, homes')
                 /\ \A i \in 1..Len(batch), f \in Fields :
                       homes'[Len(homes) + i][f] = batch[i][f]
                 /\ loaderOut' = "inserted"
            ELSE /\ homes' = homes
                 /\ loaderPc = "failed" =>
                       (loaderPc' = "close" /\ loaderOut' = "error")]_vars
    /\ [](loaderPc = "close" =>
            loaderOut = IF \A i \in 1..Len(batch) : Insertable(batch[i])
                        THEN "inserted" ELSE "error")

\* A run that failed on its second row, rolled back and reported.
C5_Witness ==
    /\ loaderPc = "close"
    /\ batch = <<RowC, RowBad>>
    /\ loaderOut = "error"
    /\ homes # <<>>
    /\ LoadedRows = {}

\* C6: every step leaves the stored rows in place and unchanged, and a
\* list, predict or recommendation request leaves the table as it is.
C6_AppendOnly ==
    [][/\ IsPrefix(homes, homes')
       /\ last'.op \in ReadOps => homes' = homes]_vars

\* A read of a table both a create and the loader have written.
C6_Witness ==
    /\ last.op = "list"
    /\ Len(homes) = 3
    /\ CreatedRows # {}
    /\ LoadedRows # {}
    /\ homes[3] \in CreatedRows

\* C7: for skip, limit >= 0 the list route answers, as a success, the rows
\* at positions skip+1 .. skip+limit of the insertion order, in that order.
C7_ListSlice ==
    (last.op = "list" /\ last.skip >= 0 /\ last.limit >= 0) =>
        /\ last.status = 200
        /\ ~raised[last.req]
        /\ Len(last.out) = MaxInt(0, MinInt(last.limit, Len(homes) - last.skip))
        /\ \A i \in 1..Len(last.out) : last.out[i] = homes[last.skip + i]

C7_Witness ==
    /\ last.op = "list"
    /\ last.skip = 1 /\ last.limit = 1
    /\ Len(homes) = 3
    /\ last.out = <<homes[2]>>

\* C8 as stated: once the response of a request has been delivered, the
\* session of the request has been released.
C8_ReleasedBeforeResponse ==
    \A r \in Reqs : sent[r] => session[r] = 0

\* C8 as amended: a request that uses storage runs its route body with an
\* open session no other request has; get_db closes it on every exit of the
\* route body, so that no session is open without a request in flight
\* owning it, and a request that is over has none.
C8_SessionScoped ==
    /\ \A r \in Reqs : pc[r] = "handler" => session[r] \in open
    /\ last.op \in DbOps => session[last.req] \in open
    /\ \A r, q \in Reqs : (r # q /\ session[r] # 0) => session[r] # session[q]
    /\ open = {session[r] : r \in Reqs} \ {0}
    /\ \A r \in Reqs : pc[r] = "idle" => session[r] = 0

\* A request that raised has had its session closed, before its response
\* was delivered, while another request is in its route body.
C8_Witness ==
    \E r, q \in Reqs :
        /\ pc[r] = "exit" /\ raised[r] /\ ~sent[r] /\ session[r] = 0
        /\ pc[q] = "handler" /\ open = {session[q]}

\* C9 as stated: a recommendation asked of a table that holds a row ends
\* in a success with at least one row, whatever the price and the limit.
C9_NotFoundOnlyWhenEmpty ==
    (last.op = "recommendation" /\ homes # <<>>) =>
        (last.status = 200 /\ last.out # <<>>)

\* C10 as stated: asked for the dirham price of a stored row's medv, with
\* limit >= 1, the recommendation answers first a row of that medv.
C10_RoundTripExact ==
    (last.op = "recommendation" /\ last.limit >= 1) =>
        \A h \in Range(homes) :
            last.price = PriceOf(h.medv) =>
                (last.status = 200 /\ last.out[1].medv = h.medv)

\* C10 as amended: the row answered first is at least as near to
\* price/1000/10 as the stored row is, and has the stored row's medv
\* whenever price/1000/10 gives that medv back exactly.
C10_RoundTripNearest ==
    (last.op = "recommendation" /\ last.limit >= 1) =>
        \A h \in Range(homes) :
            last.price = PriceOf(h.medv) =>
                LET back == FDiv(FDiv(last.price, Thousand), DirhamRate)
                IN  /\ last.status = 200
                    /\ FLeq(AbsDiff(last.out[1].medv, back),
                            AbsDiff(h.medv, back))
                    /\ back = h.medv => last.out[1].medv = h.medv

\* The price of a stored medv that converts back exactly, asked of a table
\* that also holds other values.
C10_Witness ==
    /\ last.op = "recommendation" /\ last.limit = 1
    /\ last.price = PriceOf(RowC.medv)
    /\ ConvertPrice(last.price) = RowC.medv
    /\ Len(homes) = 3
    /\ homes[3].medv = RowC.medv
    /\ homes[1].medv # RowC.medv
    /\ last.out[1].medv = RowC.medv

====
